---- MODULE Spec2Model ----
(***************************************************************************)
(* Model of pkg/controller/deployment/rbac_validator.go: the RBACValidator *)
(* that decides whether the operator's ClusterRole rules (operatorRules)   *)
(* cover the rules of the Roles it creates.                                *)
(*                                                                         *)
(* A PolicyRule is a record of four string slices                          *)
(*   [APIGroups, Resources, Verbs, ResourceNames]                          *)
(* and a Role is [Name, Rules].  Go slices are sequences, a nil slice is   *)
(* the empty sequence, strings are TLA+ strings.                           *)
(***************************************************************************)
EXTENDS Integers, Sequences, FiniteSets, TLC

VARIABLES
    operatorRules,  \* RBACValidator.operatorRules, set by NewRBACValidator
    createdRoles,   \* RBACValidator.createdRoles, never assigned by the code
    op,             \* the method whose result the caller holds, "idle" when none
    arg,            \* the argument of that call
    ret,            \* the value that call returned
    callers         \* the calls in progress when several callers share the validator

vars == <<operatorRules, createdRoles, op, arg, ret, callers>>

-----------------------------------------------------------------------------
(* Bounds of the model *)

\* longest granted rule list given to NewRBACValidator
MaxGranted == 2
\* most rules in a role built from RoleRules (and in a list given to the renderer)
MaxRules == 2
\* most roles in one ValidateAllRoles call
MaxRoles == 3

-----------------------------------------------------------------------------
(* Values *)

PolicyRule(groups, resources, verbs, names) ==
    [APIGroups |-> groups, Resources |-> resources, Verbs |-> verbs,
     ResourceNames |-> names]

Role(name, rules) == [Name |-> name, Rules |-> rules]

\* all sequences over S of length at most n
ListsUpTo(S, n) == UNION {[1..k -> S] : k \in 0..n}

\* Attribute values of the requested rules: nil, one value, the wildcard, two
\* values, a base resource and its sub-resource, a repeated value, and values
\* out of alphabetical order.
APIGroupLists == {<<>>, <<"">>, <<"*">>, <<"", "apps">>}
ResourceLists ==
    {<<>>, <<"serviceaccounts">>, <<"serviceaccounts/token">>, <<"*">>,
     <<"serviceaccounts", "serviceaccounts/token">>}
VerbLists == {<<>>, <<"create">>, <<"*">>, <<"get", "create">>, <<"create", "create">>}
NameLists == {<<>>, <<"cert-manager">>, <<"*">>, <<"cert-manager", "other">>}

\* the requested rules a single-rule call is tried on
PolicyRules ==
    {PolicyRule(g, r, v, n) :
        g \in APIGroupLists, r \in ResourceLists, v \in VerbLists, n \in NameLists}

\* The rules an operator ClusterRole is built from: the fixtures of the tests
\* (core-group rule without the token sub-resource, with it, the minimal token
\* rule, the all-wildcard rule) and rules restricted by resourceNames.
GrantedRules ==
    {PolicyRule(<<"">>, <<"serviceaccounts", "configmaps">>, <<"*">>, <<>>),
     PolicyRule(<<"">>, <<"serviceaccounts", "serviceaccounts/token", "configmaps">>,
                <<"get", "list", "create">>, <<>>),
     PolicyRule(<<"">>, <<"serviceaccounts/token">>, <<"create">>, <<"cert-manager">>),
     PolicyRule(<<"*">>, <<"*">>, <<"*">>, <<>>),
     PolicyRule(<<"", "apps">>, <<"*">>, <<"get", "create">>, <<"*">>),
     PolicyRule(<<>>, <<>>, <<>>, <<>>)}

GrantedLists == ListsUpTo(GrantedRules, MaxGranted)

\* the rules multi-rule roles are built from
RoleRules ==
    {PolicyRule(<<"">>, <<"serviceaccounts/token">>, <<"create">>, <<"cert-manager">>),
     PolicyRule(<<"">>, <<"serviceaccounts/token">>, <<"create">>, <<>>),
     PolicyRule(<<"">>, <<"serviceaccounts">>, <<"get">>, <<>>),
     PolicyRule(<<"apps">>, <<"deployments">>, <<"get", "create">>, <<>>)}

RuleLists == ListsUpTo(RoleRules, MaxRules) \cup {<<r>> : r \in PolicyRules}

RoleNames == {"cert-manager-tokenrequest", "test-role"}

Roles == {Role(n, rs) : n \in RoleNames, rs \in RuleLists}

\* the roles ValidateAllRoles is called with
BatchRoles ==
    {Role("cert-manager-tokenrequest",
          <<PolicyRule(<<"">>, <<"serviceaccounts/token">>, <<"create">>,
                       <<"cert-manager">>)>>),
     Role("test-role",
          <<PolicyRule(<<"">>, <<"serviceaccounts">>, <<"get">>, <<>>)>>),
     Role("example-role",
          <<PolicyRule(<<"">>, <<"serviceaccounts">>, <<"get">>, <<>>),
            PolicyRule(<<"apps">>, <<"deployments">>, <<"get", "create">>, <<>>)>>),
     Role("empty-role", <<>>)}

RoleLists == ListsUpTo(BatchRoles, MaxRoles)

\* a nil error, and the error fmt.Errorf builds
NoError == [isNil |-> TRUE, msg |-> ""]
Errorf(msg) == [isNil |-> FALSE, msg |-> msg]

-----------------------------------------------------------------------------
(* sliceContains: every item of required is in available, or available has "*" *)

\* availableHas without the wildcard: only an equal item is found
RECURSIVE availableHasExact(_, _, _)
availableHasExact(available, req, j) ==
    IF j > Len(available) THEN FALSE
    ELSE IF available[j] = req THEN TRUE
    ELSE availableHasExact(available, req, j + 1)

\* availableHas with a base resource standing for its token sub-resource
RECURSIVE availableHasSubResource(_, _, _)
availableHasSubResource(available, req, j) ==
    IF j > Len(available) THEN FALSE
    ELSE IF available[j] = "*" \/ available[j] = req
            \/ available[j] \o "/token" = req THEN TRUE
    ELSE availableHasSubResource(available, req, j + 1)

\* availableHas whose loop starts one item late
RECURSIVE availableHasSkipFirst(_, _, _)
availableHasSkipFirst(available, req, j) ==
    IF j > Len(available) THEN FALSE
    ELSE IF j > 1 /\ (available[j] = "*" \/ available[j] = req) THEN TRUE
    ELSE availableHasSkipFirst(available, req, j + 1)

\* the inner loop over available, from index j: found
RECURSIVE availableHas(_, _, _)
availableHas(available, req, j) ==
    IF j > Len(available) THEN FALSE
    ELSE IF available[j] = "*" \/ available[j] = req THEN TRUE
    ELSE availableHas(available, req, j + 1)

\* the outer loop over required, from index i
RECURSIVE sliceContainsFrom(_, _, _)
sliceContainsFrom(available, required, i) ==
    IF i > Len(required) THEN TRUE
    ELSE IF ~availableHas(available, required[i], 1) THEN FALSE
    ELSE sliceContainsFrom(available, required, i + 1)

sliceContains(available, required) == sliceContainsFrom(available, required, 1)

\* ruleCovers that compares resourceNames whenever the required rule has some
ruleCoversNamesAlways(opRule, reqRule) ==
    IF ~sliceContains(opRule.APIGroups, reqRule.APIGroups) THEN FALSE
    ELSE IF ~sliceContains(opRule.Resources, reqRule.Resources) THEN FALSE
    ELSE IF ~sliceContains(opRule.Verbs, reqRule.Verbs) THEN FALSE
    ELSE IF Len(reqRule.ResourceNames) > 0
            /\ ~sliceContains(opRule.ResourceNames, reqRule.ResourceNames) THEN FALSE
    ELSE TRUE

(* ruleCovers: the operator rule covers the required rule *)
ruleCovers(opRule, reqRule) ==
    IF ~sliceContains(opRule.APIGroups, reqRule.APIGroups) THEN FALSE
    ELSE IF ~sliceContains(opRule.Resources, reqRule.Resources) THEN FALSE
    ELSE IF ~sliceContains(opRule.Verbs, reqRule.Verbs) THEN FALSE
    ELSE IF Len(reqRule.ResourceNames) > 0 /\ Len(opRule.ResourceNames) > 0
            /\ ~sliceContains(opRule.ResourceNames, reqRule.ResourceNames) THEN FALSE
    ELSE TRUE

\* operatorCanGrant that gives up after the first operator rule it looks at
operatorCanGrantFirstOnly(opRules, rule, i) ==
    IF i > Len(opRules) THEN FALSE
    ELSE ruleCovers(opRules[i], rule)

\* operatorCanGrant that takes an empty operator rule list for "no restriction"
RECURSIVE operatorCanGrantEmptyAllows(_, _, _)
operatorCanGrantEmptyAllows(opRules, rule, i) ==
    IF Len(opRules) = 0 THEN TRUE
    ELSE IF i > Len(opRules) THEN FALSE
    ELSE IF ruleCovers(opRules[i], rule) THEN TRUE
    ELSE operatorCanGrantEmptyAllows(opRules, rule, i + 1)

(* operatorCanGrant: scan of the operator rules, returning at the first that covers *)
\* operatorCanGrant in which the last operator rule alone decides
RECURSIVE operatorCanGrantLastWins(_, _, _)
operatorCanGrantLastWins(opRules, rule, i) ==
    IF i > Len(opRules) THEN FALSE
    ELSE IF i = Len(opRules) THEN ruleCovers(opRules[i], rule)
    ELSE operatorCanGrantLastWins(opRules, rule, i + 1)

RECURSIVE operatorCanGrantFrom(_, _, _)
operatorCanGrantFrom(opRules, rule, i) ==
    IF i > Len(opRules) THEN FALSE
    ELSE IF ruleCovers(opRules[i], rule) THEN TRUE
    ELSE operatorCanGrantFrom(opRules, rule, i + 1)

operatorCanGrant(opRules, rule) == operatorCanGrantFrom(opRules, rule, 1)

-----------------------------------------------------------------------------
(* Formatting *)

\* strings.Join
RECURSIVE Join(_, _)
Join(elems, sep) ==
    IF Len(elems) = 0 THEN ""
    ELSE IF Len(elems) = 1 THEN elems[1]
    ELSE elems[1] \o sep \o Join(Tail(elems), sep)

\* fmt's %v of a []string: the elements separated by spaces, in brackets
FormatSlice(s) == "[" \o Join(s, " ") \o "]"

formatPolicyRule(rule) ==
    "APIGroups:" \o FormatSlice(rule.APIGroups)
        \o " Resources:" \o FormatSlice(rule.Resources)
        \o " Verbs:" \o FormatSlice(rule.Verbs)

-----------------------------------------------------------------------------
(* The methods, as functions of the receiver's operatorRules and the argument *)

\* ValidateRoleCreation that keeps going and reports the last uncovered rule
RECURSIVE ValidateRoleCreationLast(_, _, _)
ValidateRoleCreationLast(opRules, role, i) ==
    IF i > Len(role.Rules) THEN NoError
    ELSE LET later == ValidateRoleCreationLast(opRules, role, i + 1)
         IN  IF ~later.isNil THEN later
             ELSE IF ~operatorCanGrant(opRules, role.Rules[i])
                  THEN Errorf("operator cannot create role " \o role.Name
                              \o ": missing permissions for "
                              \o formatPolicyRule(role.Rules[i]))
             ELSE NoError

RECURSIVE ValidateRoleCreationFrom(_, _, _)
ValidateRoleCreationFrom(opRules, role, i) ==
    IF i > Len(role.Rules) THEN NoError
    ELSE IF ~operatorCanGrant(opRules, role.Rules[i])
         THEN Errorf("operator cannot create role " \o role.Name
                     \o ": missing permissions for " \o formatPolicyRule(role.Rules[i]))
    ELSE ValidateRoleCreationFrom(opRules, role, i + 1)

ValidateRoleCreation(opRules, role) == ValidateRoleCreationFrom(opRules, role, 1)

\* ValidateAllRoles that returns at the first role that fails
RECURSIVE ValidateAllRolesStopAtFirst(_, _, _, _)
ValidateAllRolesStopAtFirst(opRules, roles, i, errors) ==
    IF i > Len(roles) THEN errors
    ELSE LET err == ValidateRoleCreation(opRules, roles[i])
         IN  IF ~err.isNil THEN Append(errors, err)
             ELSE ValidateAllRolesStopAtFirst(opRules, roles, i + 1, errors)

RECURSIVE ValidateAllRolesFrom(_, _, _, _)
ValidateAllRolesFrom(opRules, roles, i, errors) ==
    IF i > Len(roles) THEN errors
    ELSE LET err == ValidateRoleCreation(opRules, roles[i])
         IN  ValidateAllRolesFrom(opRules, roles, i + 1,
                 IF ~err.isNil THEN Append(errors, err) ELSE errors)

ValidateAllRoles(opRules, roles) == ValidateAllRolesFrom(opRules, roles, 1, <<>>)

\* GetMissingPermissions that leaves out a rule it has already collected
RECURSIVE GetMissingPermissionsOnce(_, _, _, _)
GetMissingPermissionsOnce(opRules, role, i, missing) ==
    IF i > Len(role.Rules) THEN missing
    ELSE GetMissingPermissionsOnce(opRules, role, i + 1,
             IF ~operatorCanGrant(opRules, role.Rules[i])
                /\ \A k \in DOMAIN missing : missing[k] # role.Rules[i]
             THEN Append(missing, role.Rules[i]) ELSE missing)

\* GetMissingPermissions that puts each missing rule in front of the earlier ones
RECURSIVE GetMissingPermissionsNewestFirst(_, _, _, _)
GetMissingPermissionsNewestFirst(opRules, role, i, missing) ==
    IF i > Len(role.Rules) THEN missing
    ELSE GetMissingPermissionsNewestFirst(opRules, role, i + 1,
             IF ~operatorCanGrant(opRules, role.Rules[i])
             THEN <<role.Rules[i]>> \o missing ELSE missing)

RECURSIVE GetMissingPermissionsFrom(_, _, _, _)
GetMissingPermissionsFrom(opRules, role, i, missing) ==
    IF i > Len(role.Rules) THEN missing
    ELSE GetMissingPermissionsFrom(opRules, role, i + 1,
             IF ~operatorCanGrant(opRules, role.Rules[i])
             THEN Append(missing, role.Rules[i]) ELSE missing)

GetMissingPermissions(opRules, role) == GetMissingPermissionsFrom(opRules, role, 1, <<>>)

\* Suggestion that writes the resourceNames clause for every rule
SuggestionNamesAlways(rule) ==
    LET joined == Join(rule.APIGroups, ";")
        apiGroups == IF joined = "" THEN "\"\"" ELSE joined
    IN  "//+kubebuilder:rbac:groups=" \o apiGroups
            \o ",resources=" \o Join(rule.Resources, ";")
            \o ",verbs=" \o Join(rule.Verbs, ";")
            \o ",resourceNames=" \o Join(rule.ResourceNames, ";")

\* Suggestion that writes the joined apiGroups as they are, empty or not
SuggestionPlainGroups(rule) ==
    LET suggestion == "//+kubebuilder:rbac:groups=" \o Join(rule.APIGroups, ";")
                          \o ",resources=" \o Join(rule.Resources, ";")
                          \o ",verbs=" \o Join(rule.Verbs, ";")
    IN  IF Len(rule.ResourceNames) > 0
        THEN suggestion \o ",resourceNames=" \o Join(rule.ResourceNames, ";")
        ELSE suggestion

\* the body of the loop of SuggestKubebuilderAnnotation: one rule's suggestion
Suggestion(rule) ==
    LET joined == Join(rule.APIGroups, ";")
        apiGroups == IF joined = "" THEN "\"\"" ELSE joined
        resources == Join(rule.Resources, ";")
        verbs == Join(rule.Verbs, ";")
        suggestion == "//+kubebuilder:rbac:groups=" \o apiGroups
                          \o ",resources=" \o resources \o ",verbs=" \o verbs
    IN  IF Len(rule.ResourceNames) > 0
        THEN suggestion \o ",resourceNames=" \o Join(rule.ResourceNames, ";")
        ELSE suggestion

RECURSIVE SuggestKubebuilderAnnotationFrom(_, _, _)
SuggestKubebuilderAnnotationFrom(missingRules, i, suggestions) ==
    IF i > Len(missingRules) THEN suggestions
    ELSE SuggestKubebuilderAnnotationFrom(missingRules, i + 1,
             Append(suggestions, Suggestion(missingRules[i])))

SuggestKubebuilderAnnotation(missingRules) ==
    SuggestKubebuilderAnnotationFrom(missingRules, 1, <<>>)

-----------------------------------------------------------------------------
(* The state machine: a validator is constructed, then its methods are called *)
(* one after another; each call runs to its return, and the caller takes   *)
(* the result before the next call.                                        *)

\* NewRBACValidator(rules): only operatorRules is set
Init ==
    /\ operatorRules \in GrantedLists
    /\ createdRoles = <<>>
    /\ op = "idle"
    /\ arg = <<>>
    /\ ret = <<>>
    /\ callers = <<>>

\* a call of the unexported operatorCanGrant, as ValidateRoleCreation and
\* GetMissingPermissions make it for each rule
CallOperatorCanGrant ==
    /\ op = "idle"
    /\ \E rule \in PolicyRules :
        /\ op' = "operatorCanGrant"
        /\ arg' = rule
        /\ ret' = operatorCanGrant(operatorRules, rule)
    /\ UNCHANGED <<operatorRules, createdRoles, callers>>

CallValidateRoleCreation ==
    /\ op = "idle"
    /\ \E role \in Roles :
        /\ op' = "ValidateRoleCreation"
        /\ arg' = role
        /\ ret' = ValidateRoleCreation(operatorRules, role)
    /\ UNCHANGED <<operatorRules, createdRoles, callers>>

\* ValidateAllRoles that keeps the roles it was given in createdRoles
CallValidateAllRolesRecording ==
    /\ op = "idle"
    /\ \E roles \in RoleLists :
        /\ op' = "ValidateAllRoles"
        /\ arg' = roles
        /\ ret' = ValidateAllRoles(operatorRules, roles)
        /\ createdRoles' = roles
    /\ UNCHANGED <<operatorRules, callers>>

CallValidateAllRoles ==
    /\ op = "idle"
    /\ \E roles \in RoleLists :
        /\ op' = "ValidateAllRoles"
        /\ arg' = roles
        /\ ret' = ValidateAllRoles(operatorRules, roles)
    /\ UNCHANGED <<operatorRules, createdRoles, callers>>

CallGetMissingPermissions ==
    /\ op = "idle"
    /\ \E role \in Roles :
        /\ op' = "GetMissingPermissions"
        /\ arg' = role
        /\ ret' = GetMissingPermissions(operatorRules, role)
    /\ UNCHANGED <<operatorRules, createdRoles, callers>>

CallSuggestKubebuilderAnnotation ==
    /\ op = "idle"
    /\ \E missingRules \in RuleLists :
        /\ op' = "SuggestKubebuilderAnnotation"
        /\ arg' = missingRules
        /\ ret' = SuggestKubebuilderAnnotation(missingRules)
    /\ UNCHANGED <<operatorRules, createdRoles, callers>>

\* the caller is done with the result of the last call
Return ==
    /\ op # "idle"
    /\ op' = "idle"
    /\ arg' = <<>>
    /\ ret' = <<>>
    /\ UNCHANGED <<operatorRules, createdRoles, callers>>

Next ==
    \/ CallOperatorCanGrant
    \/ CallValidateRoleCreation
    \/ CallValidateAllRoles
    \/ CallGetMissingPermissions
    \/ CallSuggestKubebuilderAnnotation
    \/ Return

Spec == Init /\ [][Next]_vars

-----------------------------------------------------------------------------
(* The coverage relation as the specification states it, over sets *)

Elems(s) == {s[i] : i \in DOMAIN s}

\* every element of required is in granted, or granted contains "*"
AttrCovered(granted, required) ==
    "*" \in Elems(granted) \/ Elems(required) \subseteq Elems(granted)

\* apiGroups, resources and verbs of R are covered by G
TripleCovered(G, R) ==
    /\ AttrCovered(G.APIGroups, R.APIGroups)
    /\ AttrCovered(G.Resources, R.Resources)
    /\ AttrCovered(G.Verbs, R.Verbs)

\* the four conditions of the single-rule coverage test
Covers(G, R) ==
    /\ TripleCovered(G, R)
    /\ (R.ResourceNames # <<>> /\ G.ResourceNames # <<>>)
           => AttrCovered(G.ResourceNames, R.ResourceNames)

\* some granted rule satisfies the four conditions
Granted(R) == \E i \in DOMAIN operatorRules : Covers(operatorRules[i], R)

Uncovered(R) == ~Granted(R)

\* C1: operatorCanGrant returns true if and only if some granted rule satisfies
\* all four conditions (apiGroups, resources, verbs covered, and resourceNames
\* covered when both sides name some) at once.
C1_CoverageIffSomeRuleCovers ==
    op = "operatorCanGrant" => (ret = TRUE <=> Granted(arg))

\* C1 witness: a two-element requested attribute is granted by the second of two
\* operator rules, the first of which does not cover it.
C1_Witness ==
    /\ op = "operatorCanGrant"
    /\ ret = TRUE
    /\ Len(operatorRules) = 2
    /\ ~Covers(operatorRules[1], arg)
    /\ Len(arg.Verbs) = 2
    /\ "*" \notin Elems(operatorRules[2].Verbs)
    /\ arg.ResourceNames # <<>>
    /\ operatorRules[2].ResourceNames # <<>>

-----------------------------------------------------------------------------
(* What a rule permits: concrete (apiGroup, resource, verb, instance name) *)
(* requests, drawn from the values the rules name and one more per attribute *)

ConcreteGroups == {"", "apps", "batch"}
ConcreteResources ==
    {"serviceaccounts", "serviceaccounts/token", "configmaps", "deployments", "secrets"}
ConcreteVerbs == {"get", "list", "create", "delete"}
ConcreteNames == {"cert-manager", "other", "third"}

\* an attribute permits value x: it lists x, or it lists "*"
AttrPermits(attr, x) == "*" \in Elems(attr) \/ x \in Elems(attr)

\* empty resourceNames permit every instance name
Permits(rule, g, r, v, n) ==
    /\ AttrPermits(rule.APIGroups, g)
    /\ AttrPermits(rule.Resources, r)
    /\ AttrPermits(rule.Verbs, v)
    /\ (rule.ResourceNames = <<>> \/ AttrPermits(rule.ResourceNames, n))

\* everything rule R permits is permitted by some operator rule
NothingBroader(R) ==
    \A g \in ConcreteGroups, r \in ConcreteResources, v \in ConcreteVerbs,
       n \in ConcreteNames :
        Permits(R, g, r, v, n)
            => \E i \in DOMAIN operatorRules : Permits(operatorRules[i], g, r, v, n)

\* C2: whenever ValidateRoleCreation returns nil, every concrete (apiGroup,
\* resource, verb, instance name) combination that some rule of the role permits
\* is permitted by at least one operator rule.
C2_ValidatedRoleGrantsNothingBroader ==
    (op = "ValidateRoleCreation" /\ ret.isNil)
        => \A i \in DOMAIN arg.Rules : NothingBroader(arg.Rules[i])

\* same apiGroups, resources and verbs
SameTriple(G, R) ==
    /\ G.APIGroups = R.APIGroups
    /\ G.Resources = R.Resources
    /\ G.Verbs = R.Verbs

\* G names instances, R names none, and the other attributes are the same
ReverseAsymmetry(G, R) ==
    /\ G.ResourceNames # <<>>
    /\ R.ResourceNames = <<>>
    /\ SameTriple(G, R)

\* C3: with a single operator rule that has resourceNames, a requested rule with
\* the same apiGroups, resources and verbs and no resourceNames is not covered:
\* operatorCanGrant returns false and ValidateRoleCreation returns an error.
C3_NamedGrantDoesNotCoverUnnamedRequest ==
    Len(operatorRules) = 1 =>
        /\ (op = "operatorCanGrant" /\ ReverseAsymmetry(operatorRules[1], arg))
               => ret = FALSE
        /\ (op = "ValidateRoleCreation"
              /\ \E i \in DOMAIN arg.Rules :
                     ReverseAsymmetry(operatorRules[1], arg.Rules[i]))
               => ~ret.isNil

\* R names instances and some operator rule without resourceNames covers its
\* apiGroups, resources and verbs
ForwardAsymmetry(R) ==
    /\ R.ResourceNames # <<>>
    /\ \E i \in DOMAIN operatorRules :
           /\ operatorRules[i].ResourceNames = <<>>
           /\ TripleCovered(operatorRules[i], R)

\* C4: an operator rule with empty resourceNames covers a requested rule with
\* non-empty resourceNames whenever it covers the rule's apiGroups, resources and
\* verbs; a role made of such rules validates.
C4_UnnamedGrantCoversNamedRequest ==
    /\ (op = "operatorCanGrant" /\ ForwardAsymmetry(arg)) => ret = TRUE
    /\ (op = "ValidateRoleCreation"
          /\ \A i \in DOMAIN arg.Rules : ForwardAsymmetry(arg.Rules[i]))
           => ret.isNil

\* C4 witness: the token-request role (resourceNames cert-manager) validates
\* against operator rules none of which names instances or uses a wildcard.
C4_Witness ==
    /\ op = "ValidateRoleCreation"
    /\ ret.isNil
    /\ arg.Rules # <<>>
    /\ \A i \in DOMAIN arg.Rules : arg.Rules[i].ResourceNames = <<"cert-manager">>
    /\ operatorRules # <<>>
    /\ \A i \in DOMAIN operatorRules :
           /\ operatorRules[i].ResourceNames = <<>>
           /\ "*" \notin Elems(operatorRules[i].Resources)
           /\ "*" \notin Elems(operatorRules[i].Verbs)

\* the sub-resource token of the model and its base resource
SubResource == "serviceaccounts/token"
BaseResource == "serviceaccounts"

\* some operator rule lists the exact sub-resource token or "*"
SubResourceListed ==
    \E i \in DOMAIN operatorRules :
        SubResource \in Elems(operatorRules[i].Resources)
            \/ "*" \in Elems(operatorRules[i].Resources)

\* C5: a requested rule naming the sub-resource token is covered only if some
\* operator rule lists that exact token or "*" in its resources; with operator
\* rules that list only the base resource the role does not validate.
C5_NoSubResourceInference ==
    /\ (op = "operatorCanGrant" /\ SubResource \in Elems(arg.Resources)
          /\ ~SubResourceListed)
           => ret = FALSE
    /\ (op = "ValidateRoleCreation"
          /\ (\E i \in DOMAIN arg.Rules : SubResource \in Elems(arg.Rules[i].Resources))
          /\ ~SubResourceListed)
           => ~ret.isNil

\* C5 witness: the only operator rule lists the base resource with wildcard
\* verbs, the role asks for the sub-resource, and validation fails.
C5_Witness ==
    /\ op = "ValidateRoleCreation"
    /\ ~ret.isNil
    /\ Len(operatorRules) = 1
    /\ BaseResource \in Elems(operatorRules[1].Resources)
    /\ operatorRules[1].Verbs = <<"*">>
    /\ ~SubResourceListed
    /\ Len(arg.Rules) = 1
    /\ arg.Rules[1].Resources = <<SubResource>>
    /\ AttrCovered(operatorRules[1].APIGroups, arg.Rules[1].APIGroups)

-----------------------------------------------------------------------------
(* The reporting operations *)

\* the indices of the role's rules that no operator rule covers
UncoveredAt(role) == {i \in DOMAIN role.Rules : Uncovered(role.Rules[i])}

\* the least element of a non-empty set of indices
Least(S) == CHOOSE i \in S : \A j \in S : i <= j

\* the error of a role whose rule does not pass: the role's name, and the
\* rule's apiGroups, resources and verbs
ErrorAbout(name, rule) ==
    Errorf("operator cannot create role " \o name \o ": missing permissions for "
           \o formatPolicyRule(rule))

\* C6: ValidateRoleCreation returns nil if and only if every rule of the role
\* passes the coverage test; otherwise it returns one error, with the role's name
\* and the apiGroups, resources and verbs of the first uncovered rule.
C6_FirstUncoveredRuleReported ==
    op = "ValidateRoleCreation" =>
        IF UncoveredAt(arg) = {}
        THEN ret = NoError
        ELSE ret = ErrorAbout(arg.Name, arg.Rules[Least(UncoveredAt(arg))])

\* C6 witness: two uncovered rules with different attributes; the error is about
\* the first and not about the second.
C6_Witness ==
    /\ op = "ValidateRoleCreation"
    /\ UncoveredAt(arg) = {1, 2}
    /\ ret = ErrorAbout(arg.Name, arg.Rules[1])
    /\ ret # ErrorAbout(arg.Name, arg.Rules[2])

\* a role fails single-role validation: one of its rules is not covered
Fails(role) == UncoveredAt(role) # {}

\* C7: ValidateAllRoles returns one error per role that fails single-role
\* validation and none for the others, in the order of the input; the result is
\* empty if and only if every role passes.
C7_OneErrorPerFailingRoleInOrder ==
    op = "ValidateAllRoles" =>
        LET failing == SelectSeq(arg, Fails)
        IN  /\ Len(ret) = Len(failing)
            /\ \A k \in DOMAIN failing :
                   ret[k] = ErrorAbout(failing[k].Name,
                                failing[k].Rules[Least(UncoveredAt(failing[k]))])
            /\ (ret = <<>> <=> \A i \in DOMAIN arg : ~Fails(arg[i]))

\* C7 witness: [A fails, B passes, C fails] with A and C different roles gives
\* two errors, A's then C's.
C7_Witness ==
    /\ op = "ValidateAllRoles"
    /\ Len(arg) = 3
    /\ Fails(arg[1]) /\ ~Fails(arg[2]) /\ Fails(arg[3])
    /\ arg[2].Rules # <<>>
    /\ arg[1].Name # arg[3].Name
    /\ Len(ret) = 2
    /\ ret[1] # ret[2]

\* C8: GetMissingPermissions returns the rules of the role that fail the coverage
\* test, each whole (resourceNames included), in their order, once per occurrence.
C8_MissingIsUncoveredSubsequence ==
    op = "GetMissingPermissions" => ret = SelectSeq(arg.Rules, Uncovered)

\* C8 witness: the same uncovered rule, with resourceNames, twice in the role: it
\* is returned twice.
C8_Witness ==
    /\ op = "GetMissingPermissions"
    /\ Len(arg.Rules) = 2
    /\ arg.Rules[1] = arg.Rules[2]
    /\ arg.Rules[1].ResourceNames # <<>>
    /\ ret = <<arg.Rules[1], arg.Rules[1]>>

\* the rule with "*" for apiGroups, resources and verbs and no resourceNames
WildcardRule == PolicyRule(<<"*">>, <<"*">>, <<"*">>, <<>>)

WildcardGranted == \E i \in DOMAIN operatorRules : operatorRules[i] = WildcardRule

\* C9: with the all-wildcard rule among the operator rules every requested rule
\* is covered and every role validates.
C9_WildcardCoversEverything ==
    WildcardGranted =>
        /\ op = "operatorCanGrant" => ret = TRUE
        /\ op = "ValidateRoleCreation" => ret.isNil

\* C9 witness: the all-wildcard rule comes second, after a rule that does not
\* cover the request; the request has several verbs and resourceNames.
C9_Witness ==
    /\ op = "ValidateRoleCreation"
    /\ ret.isNil
    /\ Len(operatorRules) = 2
    /\ operatorRules[2] = WildcardRule
    /\ Len(arg.Rules) = 1
    /\ ~Covers(operatorRules[1], arg.Rules[1])
    /\ Len(arg.Rules[1].Verbs) = 2
    /\ Len(arg.Rules[1].ResourceNames) = 2

\* the values of an attribute in their order, with ";" between them
RECURSIVE SemicolonJoined(_, _)
SemicolonJoined(values, k) ==
    IF k = 0 THEN ""
    ELSE IF k = 1 THEN values[1]
    ELSE SemicolonJoined(values, k - 1) \o ";" \o values[k]

\* the groups value: the joined apiGroups, or the token "" when that is empty
GroupsValue(rule) ==
    LET g == SemicolonJoined(rule.APIGroups, Len(rule.APIGroups))
    IN  IF g = "" THEN "\"\"" ELSE g

\* the annotation of a rule, after the marker prefix //+kubebuilder:
Annotation(rule) ==
    "rbac:groups=" \o GroupsValue(rule)
        \o ",resources=" \o SemicolonJoined(rule.Resources, Len(rule.Resources))
        \o ",verbs=" \o SemicolonJoined(rule.Verbs, Len(rule.Verbs))
        \o (IF rule.ResourceNames # <<>>
            THEN ",resourceNames="
                     \o SemicolonJoined(rule.ResourceNames, Len(rule.ResourceNames))
            ELSE "")

\* C10: SuggestKubebuilderAnnotation returns one string per rule, in order, each
\* rbac:groups=<g>,resources=<r>,verbs=<v> (after the kubebuilder marker) with the
\* values joined by ";" in input order, and ,resourceNames=<n> appended if and
\* only if the rule has resourceNames.
C10_OneAnnotationPerRule ==
    op = "SuggestKubebuilderAnnotation" =>
        /\ Len(ret) = Len(arg)
        /\ \A i \in DOMAIN arg : ret[i] = "//+kubebuilder:" \o Annotation(arg[i])

\* C10 witness: two rules, the first with resourceNames and the second without;
\* and a rule whose verbs are not in alphabetical order.
C10_Witness ==
    /\ op = "SuggestKubebuilderAnnotation"
    /\ Len(arg) = 2
    /\ arg[1].ResourceNames # <<>>
    /\ arg[2].ResourceNames = <<>>
    /\ arg[2].Verbs = <<"get", "create">>
    /\ ret = <<"//+kubebuilder:rbac:groups=\"\",resources=serviceaccounts/token,verbs=create,resourceNames=cert-manager",
               "//+kubebuilder:rbac:groups=apps,resources=deployments,verbs=get;create">>

-----------------------------------------------------------------------------
(* The groups value of a suggestion *)

\* what follows the groups value in the suggestion of a rule
AfterGroups(rule) ==
    ",resources=" \o SemicolonJoined(rule.Resources, Len(rule.Resources))
        \o ",verbs=" \o SemicolonJoined(rule.Verbs, Len(rule.Verbs))
        \o (IF rule.ResourceNames # <<>>
            THEN ",resourceNames="
                     \o SemicolonJoined(rule.ResourceNames, Len(rule.ResourceNames))
            ELSE "")

\* the two-character token: two double quotes
EmptyQuoteToken == "\"\""

\* C11: the groups value is the token "" when apiGroups is empty and when it is
\* the single core group [""]; for every other apiGroups it is the elements joined
\* by ";" unquoted, a core group in a longer list giving an empty segment.
C11_GroupsValue ==
    op = "SuggestKubebuilderAnnotation" =>
        \A i \in DOMAIN arg :
            LET groups == arg[i].APIGroups
                value == IF groups = <<>> \/ groups = <<"">>
                         THEN EmptyQuoteToken
                         ELSE SemicolonJoined(groups, Len(groups))
            IN  /\ i \in DOMAIN ret
                /\ ret[i] = "//+kubebuilder:rbac:groups=" \o value \o AfterGroups(arg[i])

\* C11 witness: a rule with no apiGroups at all is rendered with groups="".
C11_Witness ==
    /\ op = "SuggestKubebuilderAnnotation"
    /\ Len(arg) = 1
    /\ arg[1].APIGroups = <<>>
    /\ arg[1].Resources = <<"serviceaccounts/token">>
    /\ arg[1].Verbs = <<"create">>
    /\ arg[1].ResourceNames = <<>>
    /\ ret = <<"//+kubebuilder:rbac:groups=\"\",resources=serviceaccounts/token,verbs=create">>

-----------------------------------------------------------------------------
(* No operator rules *)

\* the rule whose four attributes are all empty
EmptyRule == PolicyRule(<<>>, <<>>, <<>>, <<>>)

\* C12: a validator constructed with no operator rules covers no rule, not even
\* the rule with all attributes empty: ValidateRoleCreation fails for every role
\* with a rule and succeeds for a role without rules, and GetMissingPermissions
\* returns all the rules of the role.
C12_NoRulesGrantNothing ==
    operatorRules = <<>> =>
        /\ op = "operatorCanGrant" => ret = FALSE
        /\ op = "ValidateRoleCreation" => (ret.isNil <=> arg.Rules = <<>>)
        /\ op = "GetMissingPermissions" => ret = arg.Rules

\* C12 witness: with no operator rules the all-empty rule is not covered.
C12_Witness ==
    /\ operatorRules = <<>>
    /\ op = "operatorCanGrant"
    /\ arg = EmptyRule
    /\ ret = FALSE

-----------------------------------------------------------------------------
(* The operator creating roles out of its own rules: the validator is built  *)
(* from a list that holds a rule X of PolicyRules, first or last, and is     *)
(* asked about the rules of that list.                                       *)

InitExact ==
    /\ \E others \in ListsUpTo(GrantedRules, MaxGranted - 1), x \in PolicyRules :
           operatorRules \in {others \o <<x>>, <<x>> \o others}
    /\ createdRoles = <<>>
    /\ op = "idle"
    /\ arg = <<>>
    /\ ret = <<>>
    /\ callers = <<>>

\* operatorCanGrant asked about one of the operator's rules
CallOperatorCanGrantOwn ==
    /\ op = "idle"
    /\ \E i \in DOMAIN operatorRules :
        /\ op' = "operatorCanGrant"
        /\ arg' = operatorRules[i]
        /\ ret' = operatorCanGrant(operatorRules, operatorRules[i])
    /\ UNCHANGED <<operatorRules, createdRoles, callers>>

\* ValidateRoleCreation of a role with one of the operator's rules, or all of them
CallValidateRoleCreationOwn ==
    /\ op = "idle"
    /\ \E name \in RoleNames,
          rules \in {<<operatorRules[i]>> : i \in DOMAIN operatorRules}
                        \cup {operatorRules} :
        /\ op' = "ValidateRoleCreation"
        /\ arg' = Role(name, rules)
        /\ ret' = ValidateRoleCreation(operatorRules, Role(name, rules))
    /\ UNCHANGED <<operatorRules, createdRoles, callers>>

NextExact ==
    \/ CallOperatorCanGrantOwn
    \/ CallValidateRoleCreationOwn
    \/ Return

SpecExact == InitExact /\ [][NextExact]_vars

\* C13: a requested rule equal, attribute for attribute, to one of the operator
\* rules is covered, and a role whose rules are all among the operator rules
\* validates.
C13_ExactMatchSuffices ==
    /\ (op = "operatorCanGrant" /\ arg \in Elems(operatorRules)) => ret = TRUE
    /\ (op = "ValidateRoleCreation"
          /\ \A i \in DOMAIN arg.Rules : arg.Rules[i] \in Elems(operatorRules))
           => ret.isNil

\* C13 witness: the role has the operator's two rules; the second has two
\* apiGroups, a wildcard verb and two resourceNames, and the first does not
\* cover it.
C13_Witness ==
    /\ op = "ValidateRoleCreation"
    /\ ret.isNil
    /\ Len(operatorRules) = 2
    /\ arg.Rules = operatorRules
    /\ operatorRules[2].APIGroups = <<"", "apps">>
    /\ operatorRules[2].Verbs = <<"*">>
    /\ operatorRules[2].ResourceNames = <<"cert-manager", "other">>
    /\ ~Covers(operatorRules[1], operatorRules[2])

-----------------------------------------------------------------------------
(* Calls leave the validator as it was *)

\* the call the caller holds the result of, made again in the current state
Repeated(o, a) ==
    CASE o = "operatorCanGrant" -> operatorCanGrant(operatorRules, a)
      [] o = "ValidateRoleCreation" -> ValidateRoleCreation(operatorRules, a)
      [] o = "ValidateAllRoles" -> ValidateAllRoles(operatorRules, a)
      [] o = "GetMissingPermissions" -> GetMissingPermissions(operatorRules, a)
      [] o = "SuggestKubebuilderAnnotation" -> SuggestKubebuilderAnnotation(a)

-----------------------------------------------------------------------------
(* Several callers on one validator.  Each call is a loop over its argument; *)
(* a step of a caller is one iteration of its loop, which reads the          *)
(* validator's operatorRules and writes only the call's own locals (the loop *)
(* index i and the slice it appends to, acc).  Steps of different callers    *)
(* interleave freely.                                                        *)

\* callers sharing the validator
NumCallers == 2

Callers == 1..NumCallers

\* a caller with no call in progress
Resting == [op |-> "idle", arg |-> <<>>, i |-> 0, acc |-> <<>>, done |-> FALSE, ret |-> <<>>]

\* a call that has just been entered: the loop is at its first item, the slice is nil
Entered(o, a) == [op |-> o, arg |-> a, i |-> 1, acc |-> <<>>, done |-> FALSE, ret |-> <<>>]

\* the call has returned r
Returned(call, r) == [call EXCEPT !.done = TRUE, !.ret = r]

\* operator rules of the shared validator: none, the ClusterRole without the
\* token sub-resource, and the one with it next to a name-restricted token rule
SharedGranted ==
    {<<>>,
     <<PolicyRule(<<"">>, <<"serviceaccounts", "configmaps">>, <<"*">>, <<>>)>>,
     <<PolicyRule(<<"">>, <<"serviceaccounts/token">>, <<"create">>, <<"cert-manager">>),
       PolicyRule(<<"">>, <<"serviceaccounts", "serviceaccounts/token", "configmaps">>,
                  <<"get", "list", "create">>, <<>>)>>}

\* the calls the callers make
SharedCalls ==
    {<<"ValidateRoleCreation", role>> : role \in BatchRoles}
        \cup {<<"GetMissingPermissions", role>> : role \in BatchRoles}
        \cup {<<"SuggestKubebuilderAnnotation", role.Rules>> : role \in BatchRoles}

InitShared ==
    /\ operatorRules \in SharedGranted
    /\ createdRoles = <<>>
    /\ op = "idle"
    /\ arg = <<>>
    /\ ret = <<>>
    /\ callers = [c \in Callers |-> Resting]

\* a caller enters a method
Enter ==
    /\ \E c \in Callers, call \in SharedCalls :
        /\ callers[c].op = "idle"
        /\ callers' = [callers EXCEPT ![c] = Entered(call[1], call[2])]
    /\ UNCHANGED <<operatorRules, createdRoles, op, arg, ret>>

\* one iteration of the loop of ValidateRoleCreation, or its return nil
StepValidateRoleCreation ==
    /\ \E c \in Callers :
        LET call == callers[c]
            role == call.arg
        IN  /\ call.op = "ValidateRoleCreation"
            /\ ~call.done
            /\ callers' = [callers EXCEPT ![c] =
                   IF call.i > Len(role.Rules) THEN Returned(call, NoError)
                   ELSE IF ~operatorCanGrant(operatorRules, role.Rules[call.i])
                        THEN Returned(call,
                                 Errorf("operator cannot create role " \o role.Name
                                        \o ": missing permissions for "
                                        \o formatPolicyRule(role.Rules[call.i])))
                   ELSE [call EXCEPT !.i = call.i + 1]]
    /\ UNCHANGED <<operatorRules, createdRoles, op, arg, ret>>

\* GetMissingPermissions whose missing slice is one variable of the package,
\* kept with the first caller, instead of a local of the call
StepGetMissingPermissionsShared ==
    /\ \E c \in Callers :
        LET call == callers[c]
            role == call.arg
            missing == callers[1].acc
            after == IF call.i > Len(role.Rules) THEN Returned(call, missing)
                     ELSE [call EXCEPT !.i = call.i + 1]
            appended == IF call.i <= Len(role.Rules)
                           /\ ~operatorCanGrant(operatorRules, role.Rules[call.i])
                        THEN Append(missing, role.Rules[call.i]) ELSE missing
        IN  /\ call.op = "GetMissingPermissions"
            /\ ~call.done
            /\ callers' = [d \in Callers |->
                   IF d = 1 THEN [(IF c = 1 THEN after ELSE callers[1])
                                     EXCEPT !.acc = appended]
                   ELSE IF d = c THEN after ELSE callers[d]]
    /\ UNCHANGED <<operatorRules, createdRoles, op, arg, ret>>

\* one iteration of the loop of GetMissingPermissions, or its return
StepGetMissingPermissions ==
    /\ \E c \in Callers :
        LET call == callers[c]
            role == call.arg
        IN  /\ call.op = "GetMissingPermissions"
            /\ ~call.done
            /\ callers' = [callers EXCEPT ![c] =
                   IF call.i > Len(role.Rules) THEN Returned(call, call.acc)
                   ELSE [call EXCEPT
                            !.i = call.i + 1,
                            !.acc = IF ~operatorCanGrant(operatorRules, role.Rules[call.i])
                                    THEN Append(call.acc, role.Rules[call.i])
                                    ELSE call.acc]]
    /\ UNCHANGED <<operatorRules, createdRoles, op, arg, ret>>

\* one iteration of the loop of SuggestKubebuilderAnnotation, or its return
StepSuggestKubebuilderAnnotation ==
    /\ \E c \in Callers :
        LET call == callers[c]
        IN  /\ call.op = "SuggestKubebuilderAnnotation"
            /\ ~call.done
            /\ callers' = [callers EXCEPT ![c] =
                   IF call.i > Len(call.arg) THEN Returned(call, call.acc)
                   ELSE [call EXCEPT
                            !.i = call.i + 1,
                            !.acc = Append(call.acc, Suggestion(call.arg[call.i]))]]
    /\ UNCHANGED <<operatorRules, createdRoles, op, arg, ret>>

\* a caller takes the result of its call
Leave ==
    /\ \E c \in Callers :
        /\ callers[c].done
        /\ callers' = [callers EXCEPT ![c] = Resting]
    /\ UNCHANGED <<operatorRules, createdRoles, op, arg, ret>>

NextShared ==
    \/ Enter
    \/ StepValidateRoleCreation
    \/ StepGetMissingPermissions
    \/ StepSuggestKubebuilderAnnotation
    \/ Leave

SpecShared == InitShared /\ [][NextShared]_vars

\* C15: whatever the interleaving of the callers' steps, no step writes the
\* validator's operatorRules or createdRoles, and every call that has returned
\* returned what the same call returns when it runs alone on that validator.
C15_ConcurrentCallsAsAlone ==
    [][/\ operatorRules' = operatorRules
       /\ createdRoles' = createdRoles
       /\ \A c \in Callers :
              callers'[c].done
                  => callers'[c].ret = Repeated(callers'[c].op, callers'[c].arg)]_vars

\* C15 witness: the first caller's validation has returned its error while the
\* second caller's GetMissingPermissions is past its first rule, which it
\* found missing.
C15_Witness ==
    /\ callers[1].op = "ValidateRoleCreation"
    /\ callers[1].done
    /\ ~callers[1].ret.isNil
    /\ callers[2].op = "GetMissingPermissions"
    /\ ~callers[2].done
    /\ callers[2].i = 2
    /\ Len(callers[2].acc) = 1

-----------------------------------------------------------------------------
(* Order and growth of the granted list *)

\* the granted list in every order
Reordered(granted) ==
    {[i \in DOMAIN granted |-> granted[p[i]]] : p \in Permutations(DOMAIN granted)}

\* the granted list with one more rule, at any place
Grown(granted) ==
    {SubSeq(granted, 1, k) \o <<extra>> \o SubSeq(granted, k + 1, Len(granted)) :
        k \in 0..Len(granted), extra \in GrantedRules}

\* C16: the single-rule coverage test, ValidateRoleCreation and
\* GetMissingPermissions return the same for every order of the granted list,
\* and with one more granted rule a covered rule stays covered and a role
\* that validated still validates.
C16_OrderFreeAndMonotone ==
    /\ op = "operatorCanGrant" =>
          /\ \A granted \in Reordered(operatorRules) : operatorCanGrant(granted, arg) = ret
          /\ ret = TRUE =>
                \A granted \in Grown(operatorRules) : operatorCanGrant(granted, arg)
    /\ op = "ValidateRoleCreation" =>
          /\ \A granted \in Reordered(operatorRules) :
                 ValidateRoleCreation(granted, arg) = ret
          /\ ret.isNil =>
                \A granted \in Grown(operatorRules) : ValidateRoleCreation(granted, arg).isNil
    /\ op = "GetMissingPermissions" =>
          \A granted \in Reordered(operatorRules) :
              GetMissingPermissions(granted, arg) = ret

\* C16 witness: a role validates against two operator rules of which only the
\* second covers its rule, so it validates in either order and with a rule added.
C16_Witness ==
    /\ op = "ValidateRoleCreation"
    /\ ret.isNil
    /\ Len(arg.Rules) = 1
    /\ Len(operatorRules) = 2
    /\ ~Covers(operatorRules[1], arg.Rules[1])
    /\ Covers(operatorRules[2], arg.Rules[1])

-----------------------------------------------------------------------------
(* The three reports on one validator *)

\* the roles of a batch that have missing permissions, by position
WithMissing(roles) ==
    {i \in DOMAIN roles : GetMissingPermissions(operatorRules, roles[i]) # <<>>}

\* C17: on one validator ValidateRoleCreation returns an error exactly when
\* GetMissingPermissions returns a non-empty list, the error is about the first
\* rule of that list, and ValidateAllRoles returns as many errors as its input
\* has roles with a non-empty missing list.
C17_ReportsAgree ==
    /\ op = "ValidateRoleCreation" =>
          LET missing == GetMissingPermissions(operatorRules, arg)
          IN  /\ ~ret.isNil <=> missing # <<>>
              /\ ~ret.isNil => ret = ErrorAbout(arg.Name, missing[1])
    /\ op = "GetMissingPermissions" =>
          LET err == ValidateRoleCreation(operatorRules, arg)
          IN  /\ ret # <<>> <=> ~err.isNil
              /\ ret # <<>> => err = ErrorAbout(arg.Name, ret[1])
    /\ op = "ValidateAllRoles" => Len(ret) = Cardinality(WithMissing(arg))

\* C17 witness: validation failed for a role whose two different rules are
\* both uncovered.
C17_Witness ==
    /\ op = "ValidateRoleCreation"
    /\ ~ret.isNil
    /\ Len(arg.Rules) = 2
    /\ arg.Rules[1] # arg.Rules[2]
    /\ UncoveredAt(arg) = {1, 2}

====
